---------------------------- MODULE Spec2Model ----------------------------
(***************************************************************************)
(* Model of the survey tabulation engine:                                  *)
(*   src/netlify/functions/analysis_table.py  (variable / top-break API)   *)
(*   src/analysis_backend/app.py              (crosstab / insights API)    *)
(*                                                                         *)
(* A pandas Series is a sequence of records [i |-> index label, v |->     *)
(* value]; a missing value (None / NaN) is the value NaN.  Percentages are *)
(* integers counting tenths of a percent (one decimal place).              *)
(***************************************************************************)
EXTENDS Integers, Sequences, FiniteSets, TLC

VARIABLES
    pc,            \* position of the call under study: "ready" | "done"
    series,        \* _series_to_categorical: the raw input values
    policy,        \* _series_to_categorical: [limit, drop_missing, min_count]
    bucketed,      \* _series_to_categorical: the returned Series
    dataframe,     \* app.py: the survey DataFrame handed to the call
    request,       \* app.py: the arguments of the call
    result,        \* what the call returned (or that it raised)
    DATA_CACHE,    \* analysis_table.py: _DATA_CACHE, [df, fields]
    response,      \* analysis_table.py: what the last handler invocation returned
    calls,         \* analysis_table.py: the functions the last invocation called
    threads        \* analysis_table.py: the requests in progress, each with its locals

bucketVars == <<series, policy, bucketed>>
appVars == <<dataframe, request, result>>
handlerVars == <<DATA_CACHE, response, calls, threads>>
vars ==
    <<pc, series, policy, bucketed, dataframe, request, result, DATA_CACHE, response, calls,
      threads>>

-----------------------------------------------------------------------------
(* Values and generic sequence helpers                                      *)

NaN == "<NaN>"
Unset == "<unset>"

Max(a, b) == IF a >= b THEN a ELSE b
Min(a, b) == IF a <= b THEN a ELSE b

\* All sequences over S of length lo..hi.
SeqsOf(S, lo, hi) == UNION {[1..n -> S] : n \in lo..hi}

RECURSIVE SumSeq(_)
SumSeq(s) == IF s = <<>> THEN 0 ELSE Head(s) + SumSeq(Tail(s))

SeqToSet(s) == {s[k] : k \in 1..Len(s)}

\* Series.tolist()
Values(ser) == [k \in 1..Len(ser) |-> ser[k].v]

\* pd.Series(values): default RangeIndex
ToSeries(vals) == [k \in 1..Len(vals) |-> [i |-> k, v |-> vals[k]]]

\* Series.replace / fillna / apply of a relabelling: every value in `from`
\* becomes `to`, the index is kept
Relabel(ser, from, to) ==
    [k \in 1..Len(ser) |-> [i |-> ser[k].i, v |-> IF ser[k].v \in from THEN to ELSE ser[k].v]]

\* list(dict.fromkeys(values)): distinct values in order of first appearance
RECURSIVE Uniq(_)
Uniq(s) ==
    IF s = <<>> THEN <<>>
    ELSE LET init == Uniq(SubSeq(s, 1, Len(s) - 1))
             last == s[Len(s)]
         IN  IF last \in SeqToSet(init) THEN init ELSE Append(init, last)

CountOf(s, x) == Cardinality({k \in 1..Len(s) : s[k] = x})

\* seq[:n] for n >= 0
Take(s, n) == SubSeq(s, 1, Min(n, Len(s)))

-----------------------------------------------------------------------------
(* Categorical bucketing: analysis_table.py _series_to_categorical          *)

DEFAULT_LIMIT_CATEGORIES == 12
DEFAULT_MIN_COUNT == 1

MissingLabel == "Missing"
OtherLabel == "Other"

\* f"Other (n<{min_count})"
RareLabel(min_count) ==
    CASE min_count = 2 -> "Other (n<2)"
      [] min_count = 3 -> "Other (n<3)"
      [] min_count = 4 -> "Other (n<4)"
      [] OTHER -> "Other (n<k)"

\* Series.replace("", np.nan)
ReplaceEmpty(ser) == Relabel(ser, {""}, NaN)

\* Series.dropna(): the surviving entries keep their index labels
RECURSIVE DropNa(_)
DropNa(ser) ==
    IF ser = <<>> THEN <<>>
    ELSE IF Head(ser).v = NaN THEN DropNa(Tail(ser))
         ELSE <<Head(ser)>> \o DropNa(Tail(ser))

\* Series.fillna(label)
FillNa(ser, label) == Relabel(ser, {NaN}, label)

\* Insert label l into a list already ordered by descending count, after every
\* label whose count is >= its own (value_counts' sort keeps first-appearance
\* order among equal counts).
RECURSIVE InsertByCount(_, _, _)
InsertByCount(sorted, l, vals) ==
    IF sorted = <<>> THEN <<l>>
    ELSE IF CountOf(vals, Head(sorted)) >= CountOf(vals, l)
         THEN <<Head(sorted)>> \o InsertByCount(Tail(sorted), l, vals)
         ELSE <<l>> \o sorted

RECURSIVE SortByCount(_, _)
SortByCount(labels, vals) ==
    IF labels = <<>> THEN <<>>
    ELSE InsertByCount(SortByCount(SubSeq(labels, 1, Len(labels) - 1), vals),
                       labels[Len(labels)], vals)

\* Series.value_counts(dropna=False).index: labels by descending frequency
ValueCountsIndex(ser) == SortByCount(Uniq(Values(ser)), Values(ser))

\* set(series): the distinct labels of a Series
Labels(ser) == SeqToSet(Values(ser))

\* lines 146-151: merge labels rarer than min_count
RareMerge(working, min_count) ==
    LET counts == ValueCountsIndex(working)
        rare_labels == {l \in SeqToSet(counts) : CountOf(Values(working), l) < min_count}
    IN  IF min_count > 1 /\ rare_labels # {}
        THEN Relabel(working, rare_labels, RareLabel(min_count))
        ELSE working

\* line 154: how many labels the cap keeps, max(1, limit - 1)
KeepCount(limit) == Max(1, limit - 1)

\* lines 153-156: cardinality cap
CapLabels(working, limit) ==
    LET counts == ValueCountsIndex(working)
    IN  IF limit # 0 /\ Len(counts) > limit
        THEN LET keep == SeqToSet(Take(counts, KeepCount(limit)))
             IN  Relabel(working, Labels(working) \ keep, OtherLabel)
        ELSE working

\* lines 125-158
SeriesToCategorical(ser, limit, drop_missing, min_count) ==
    LET cleaned == ReplaceEmpty(ser)
        working == IF drop_missing THEN DropNa(cleaned) ELSE FillNa(cleaned, MissingLabel)
    IN  IF working = <<>> THEN working
        ELSE CapLabels(RareMerge(working, min_count), limit)

-----------------------------------------------------------------------------
(* Specification SpecBucket: one call of _series_to_categorical             *)

MaxSeriesLen == 4
MaxLimit == 3
MaxMinCount == 2
RawValues == {"a", "b", "c", OtherLabel, "", NaN}

AppIdle == dataframe = <<>> /\ request = Unset /\ result = Unset
BucketIdle == series = <<>> /\ policy = Unset /\ bucketed = Unset

\* An optional value: None is the empty sequence, a value x is <<x>>
None == <<>>
Some(x) == <<x>>

\* line 31: _DATA_CACHE = {"df": None, "fields": None}
EmptyCache == [df |-> None, fields |-> None]
NoResponse == [raised |-> "", statusCode |-> 0, body |-> [kind |-> "none"]]
HandlerIdle ==
    DATA_CACHE = EmptyCache /\ response = NoResponse /\ calls = {} /\ threads = <<>>

InitBucket ==
    /\ pc = "ready"
    /\ AppIdle /\ HandlerIdle
    /\ series \in SeqsOf(RawValues, 0, MaxSeriesLen)
    /\ policy \in [limit : 0..MaxLimit, drop_missing : BOOLEAN, min_count : 1..MaxMinCount]
    /\ bucketed = Unset

CallSeriesToCategorical ==
    /\ pc = "ready"
    /\ bucketed' = SeriesToCategorical(ToSeries(series), policy.limit,
                                       policy.drop_missing, policy.min_count)
    /\ pc' = "done"
    /\ UNCHANGED <<series, policy, appVars, handlerVars>>

NextBucket == CallSeriesToCategorical

SpecBucket == InitBucket /\ [][NextBucket]_vars

\* C1: with limit = N > 0 the returned sequence has at most N distinct labels
\* (the label set holds "Other" at most once by construction of a set).
C1_AtMostLimitLabels ==
    (pc = "done" /\ policy.limit > 0) => Cardinality(Labels(bucketed)) <= policy.limit

\* The same bound for N >= 2, where max(1, limit - 1) = limit - 1 (lemma, not a claim)
CapBoundFromTwo ==
    (pc = "done" /\ policy.limit >= 2) => Cardinality(Labels(bucketed)) <= policy.limit

-----------------------------------------------------------------------------
(* Multi-select expansion: app.py explode_columns                           *)
(*                                                                         *)
(* A DataFrame is a sequence of rows [i |-> index label, c |-> [column |-> *)
(* cell]].  A cell of a multi-select column is ListCell(items) or NaNCell   *)
(* before it is exploded and a scalar (a string or NaN) afterwards; a cell  *)
(* of any other column is a scalar.                                        *)

MULTI_SELECT_COLUMNS ==
    {"B4_SupportType", "C2_TrainingType", "C8_Barriers", "D2_EnterpriseType",
     "D6_OGSTEPInputs", "E2_Sector", "E9_Constraints", "G3_GroupMember", "H4_Risks"}

ListCell(items) == [kind |-> "list", items |-> items]
NaNCell == [kind |-> "nan", items |-> <<>>]

ColumnsOf(df) == IF df = <<>> THEN {} ELSE DOMAIN df[1].c

\* mutant: only the first element of a list survives the expansion
ExplodeRowFirstOnly(row, column) ==
    LET cell == row.c[column]
    IN  << [i |-> row.i,
            c |-> [row.c EXCEPT ![column] = IF cell.kind = "list" /\ cell.items # <<>>
                                            THEN cell.items[1] ELSE NaN]] >>

\* What DataFrame.explode makes of one row: a list gives one row per element,
\* in list order; an empty list or a missing cell gives one row holding NaN.
ExplodeRow(row, column) ==
    LET cell == row.c[column]
    IN  IF cell.kind = "list" /\ cell.items # <<>>
        THEN [k \in 1..Len(cell.items) |->
                 [i |-> row.i, c |-> [row.c EXCEPT ![column] = cell.items[k]]]]
        ELSE << [i |-> row.i, c |-> [row.c EXCEPT ![column] = NaN]] >>

\* DataFrame.explode(column): rows in original order, each row's expansion contiguous
RECURSIVE Explode(_, _)
Explode(df, column) ==
    IF df = <<>> THEN <<>>
    ELSE ExplodeRow(Head(df), column) \o Explode(Tail(df), column)

\* DataFrame.dropna(subset=columns)
RECURSIVE DropNaRows(_, _)
DropNaRows(df, subset) ==
    IF df = <<>> THEN <<>>
    ELSE IF \E col \in subset : Head(df).c[col] = NaN
         THEN DropNaRows(Tail(df), subset)
         ELSE <<Head(df)>> \o DropNaRows(Tail(df), subset)

\* lines 202-204: the loop over columns
RECURSIVE ExplodeAll(_, _)
ExplodeAll(df, columns) ==
    IF columns = <<>> THEN df
    ELSE LET column == Head(columns)
             step == IF column \in MULTI_SELECT_COLUMNS /\ column \in ColumnsOf(df)
                     THEN Explode(df, column) ELSE df
         IN  ExplodeAll(step, Tail(columns))

\* mutant: the rows left without a selection are not dropped
explode_columns_keep_na(df, columns) == ExplodeAll(df, columns)

\* lines 200-208
explode_columns(df, columns) ==
    LET exploded == ExplodeAll(df, columns)
        drop_columns == {col \in SeqToSet(columns) : col \in MULTI_SELECT_COLUMNS}
    IN  IF drop_columns # {} THEN DropNaRows(exploded, drop_columns) ELSE exploded

-----------------------------------------------------------------------------
(* Specification SpecExplode: one call of explode_columns                   *)

MaxRecords == 2
SelectLabels == {"p", "q"}
FieldA == "B4_SupportType"
FieldB == "E2_Sector"

\* Every ordered selection of distinct labels of S, the empty one included
Selections(S) ==
    {s \in SeqsOf(S, 0, Cardinality(S)) : \A j, k \in 1..Len(s) : j # k => s[j] # s[k]}

MultiCells(S) == {ListCell(s) : s \in Selections(S)} \cup {NaNCell}

\* pd.DataFrame(records): row k carries index label k
Frame(records) == [k \in 1..Len(records) |-> [i |-> k, c |-> records[k]]]

ExplodeRecords == [{FieldA, FieldB} -> MultiCells(SelectLabels)]

InitExplode ==
    /\ pc = "ready"
    /\ \E records \in SeqsOf(ExplodeRecords, 0, MaxRecords) : dataframe = Frame(records)
    /\ request \in {[op |-> "explode_columns", columns |-> cols] :
                        cols \in {<<FieldA>>, <<FieldB>>, <<FieldA, FieldB>>, <<FieldB, FieldA>>}}
    /\ result = Unset
    /\ BucketIdle /\ HandlerIdle

CallExplodeColumns ==
    /\ pc = "ready"
    /\ request.op = "explode_columns"
    /\ result' = explode_columns(dataframe, request.columns)
    /\ pc' = "done"
    /\ UNCHANGED <<dataframe, request, bucketVars, handlerVars>>

NextExplode == CallExplodeColumns

SpecExplode == InitExplode /\ [][NextExplode]_vars

\* The items a record selected in a multi-select field (none when missing)
ItemsOf(row, column) == row.c[column].items

RowsOfRecord(df, i) == {k \in 1..Len(df) : df[k].i = i}

\* The values of `column` in the rows of record i, in row order
RECURSIVE ColumnOfRecord(_, _, _)
ColumnOfRecord(df, i, column) ==
    IF df = <<>> THEN <<>>
    ELSE IF Head(df).i = i
         THEN <<Head(df).c[column]>> \o ColumnOfRecord(Tail(df), i, column)
         ELSE ColumnOfRecord(Tail(df), i, column)

\* C8: exploding one multi-select field F gives as many rows as the records'
\* F lists have elements (none for an empty or missing list); the rows of
\* one record are contiguous, in list order, and records keep their order.
C8_ExplodeOneField ==
    (pc = "done" /\ Len(request.columns) = 1) =>
        LET F == request.columns[1]
        IN  /\ Len(result) = SumSeq([k \in 1..Len(dataframe) |-> Len(ItemsOf(dataframe[k], F))])
            /\ \A k \in 1..Len(dataframe) :
                   ColumnOfRecord(result, dataframe[k].i, F) = ItemsOf(dataframe[k], F)
            /\ \A j, k \in 1..Len(result) : j < k => result[j].i <= result[k].i

C8_Witness ==
    /\ pc = "done"
    /\ Len(request.columns) = 1
    /\ Len(dataframe) = 2
    /\ Len(ItemsOf(dataframe[1], request.columns[1])) = 0
    /\ Len(ItemsOf(dataframe[2], request.columns[1])) = 2
    /\ Len(result) = 2

Reverse(s) == [k \in 1..Len(s) |-> s[Len(s) + 1 - k]]

\* C9: exploding two multi-select fields gives, whichever field comes first,
\* the same multiset of rows: per record the cartesian product of its lists.
C9_ExplodeTwoFields ==
    (pc = "done" /\ Len(request.columns) = 2) =>
        LET other == explode_columns(dataframe, Reverse(request.columns))
        IN  /\ \A k \in 1..Len(result) : CountOf(result, result[k]) = CountOf(other, result[k])
            /\ Len(result) = Len(other)
            /\ \A k \in 1..Len(dataframe) : \A a, b \in SelectLabels :
                   Cardinality({j \in RowsOfRecord(result, dataframe[k].i) :
                                    result[j].c[FieldA] = a /\ result[j].c[FieldB] = b})
                     = CountOf(ItemsOf(dataframe[k], FieldA), a) * CountOf(ItemsOf(dataframe[k], FieldB), b)
            /\ Len(result) = SumSeq([k \in 1..Len(dataframe) |->
                                 Len(ItemsOf(dataframe[k], FieldA)) * Len(ItemsOf(dataframe[k], FieldB))])

C9_Witness ==
    /\ pc = "done"
    /\ request.columns = <<FieldB, FieldA>>
    /\ Len(dataframe) = 2
    /\ Len(ItemsOf(dataframe[1], FieldA)) = 2 /\ Len(ItemsOf(dataframe[1], FieldB)) = 2
    /\ Len(ItemsOf(dataframe[2], FieldA)) = 2 /\ Len(ItemsOf(dataframe[2], FieldB)) = 0
    /\ Len(result) = 4
    /\ result # explode_columns(dataframe, Reverse(request.columns))

-----------------------------------------------------------------------------
(* Contingency tables: app.py build_crosstab                                *)
(*                                                                         *)
(* The returned table is [kind |-> "table", index, columns, cells] with    *)
(* cells[<<row, column>>] an integer: tenths of a percent once the table    *)
(* has been multiplied by 100 and rounded to one decimal.  A call that     *)
(* raises returns [kind |-> "error", error |-> the exception].              *)

TotalName == "Total"

\* The labels of the model in the order pandas sorts them (string order)
SortedLabels ==
    <<"1", "2", "3", "5", "Missing", "No", "Other", "Other (n<2)", "Other (n<3)",
      "Other (n<4)", "Other (n<k)", "Yes", "a", "a7_sex", "b", "c", "common", "control",
      "f", "m", "r1", "r2", "score", "t1", "t2", "t3", "t4", "t5", "t6", "treatment">>

RankOf(l) == CHOOSE k \in 1..Len(SortedLabels) : SortedLabels[k] = l

\* The elements of S as a sorted sequence (groupby sort=True)
RECURSIVE SortSet(_)
SortSet(S) ==
    IF S = {} THEN <<>>
    ELSE LET least == CHOOSE x \in S : \A y \in S : RankOf(x) <= RankOf(y)
         IN  <<least>> \o SortSet(S \ {least})

\* a / b (a >= 0, b > 0) rounded to the nearest integer, half to even
RoundHalfEven(a, b) ==
    LET q == a \div b
        r == a % b
    IN  IF 2 * r < b THEN q
        ELSE IF 2 * r > b THEN q + 1
        ELSE IF q % 2 = 0 THEN q ELSE q + 1

\* round(x, 1) of x = 100 * num / den, in tenths: np.round rounds half to even
RoundTenths(num, den) == RoundHalfEven(1000 * num, den)

\* mutant: the NaN of a zero margin is not filled (-1 stands for NaN)
PercentTenthsNoFill(num, den) == IF den = 0 THEN -1 ELSE RoundTenths(num, den)

\* mutant: the counts are not normalised before (crosstab * 100).round(1)
PercentTenthsOfCount(num, den) == 1000 * num

\* (x / margin * 100).round(1) after fillna(0): a zero margin gives 0.0
PercentTenths(num, den) == IF den = 0 THEN 0 ELSE RoundTenths(num, den)

\* mutant: rowPercent and columnPercent are swapped in normalize_map
normalize_map_swapped(mode) ==
    CASE mode = "count" -> Unset
      [] mode = "rowPercent" -> "columns"
      [] mode = "columnPercent" -> "index"
      [] mode = "totalPercent" -> "all"
      [] OTHER -> Unset

\* lines 251-258: normalize_map.get(mode, None)
normalize_map(mode) ==
    CASE mode = "count" -> Unset
      [] mode = "rowPercent" -> "index"
      [] mode = "columnPercent" -> "columns"
      [] mode = "totalPercent" -> "all"
      [] OTHER -> Unset

\* lines 31-40 and 194-196: the ordinal columns are pd.Categorical with a fixed
\* category list (the one the frames of the model use)
ORDINAL_COLUMNS == [F6_FoodSituation |-> <<"Worsened", "Stayed the same", "Improved">>]

\* The labels of an axis of pd.crosstab(..., dropna=False): every category of a
\* categorical column, observed or not, and the observed values of any other
AxisLabels(prepared, column) ==
    IF column \in DOMAIN ORDINAL_COLUMNS THEN ORDINAL_COLUMNS[column]
    ELSE SortSet({prepared[k].c[column] : k \in 1..Len(prepared)})

\* pd.crosstab(index, columns, aggfunc=len): the count of one cell
CellCount(prepared, side_break, top, r, c) ==
    Cardinality({k \in 1..Len(prepared) :
                    prepared[k].c[side_break] = r /\ prepared[k].c[top] = c})

\* pd.crosstab(..., normalize=normalize, margins=True, margins_name="Total")
\* followed by (crosstab * 100).round(1), for normalize in index / columns / all.
\* normalize="index" keeps the Total row only, "columns" the Total column only.
NormalizedCrosstab(prepared, side_break, top, normalize) ==
    LET rows == AxisLabels(prepared, side_break)
        cols == AxisLabels(prepared, top)
        n(r, c) == CellCount(prepared, side_break, top, r, c)
        rowsum(r) == SumSeq([j \in 1..Len(cols) |-> n(r, cols[j])])
        colsum(c) == SumSeq([j \in 1..Len(rows) |-> n(rows[j], c)])
        grand == Len(prepared)
        index == IF normalize = "columns" THEN rows ELSE Append(rows, TotalName)
        columns == IF normalize = "index" THEN cols ELSE Append(cols, TotalName)
        value(r, c) ==
            CASE r = TotalName /\ c = TotalName -> PercentTenths(grand, grand)
              [] r = TotalName /\ c # TotalName -> PercentTenths(colsum(c), grand)
              [] r # TotalName /\ c = TotalName -> PercentTenths(rowsum(r), grand)
              [] OTHER ->
                    CASE normalize = "index" -> PercentTenths(n(r, c), rowsum(r))
                      [] normalize = "columns" -> PercentTenths(n(r, c), colsum(c))
                      [] OTHER -> PercentTenths(n(r, c), grand)
    IN  [kind |-> "table", index |-> index, columns |-> columns,
         cells |-> [rc \in SeqToSet(index) \X SeqToSet(columns) |-> value(rc[1], rc[2])]]

Raised(exception, message) == [kind |-> "error", error |-> exception, message |-> message]

\* lines 245-284, for one top break.  pd.crosstab skips normalisation only for
\* normalize=False: with normalize=None (mode "count" or an unknown mode) its
\* _normalize raises ValueError("Not a valid normalize argument").  An empty
\* prepared frame has no margin row to normalise and raises as well.
build_crosstab(df, side_break, top_breaks, mode) ==
    LET prepared == explode_columns(df, <<side_break>> \o top_breaks)
        normalize == normalize_map(mode)
    IN  IF normalize = Unset THEN Raised("ValueError", "Not a valid normalize argument")
        ELSE IF prepared = <<>> THEN Raised("IndexError", "single positional indexer is out-of-bounds")
        ELSE NormalizedCrosstab(prepared, side_break, top_breaks[1], normalize)

-----------------------------------------------------------------------------
(* Specification SpecCrosstab: one call of build_crosstab                   *)

MaxSelected == 3
SideLabels == {"r1", "r2"}
TopLabels == {"t1", "t2", "t3", "t4", "t5", "t6"}
Modes == {"count", "rowPercent", "columnPercent", "totalPercent", "percent"}

\* Selections of up to MaxSelected labels that are consecutive in sorted order
\* (_pick_many returns its sample sorted)
SortedRuns(S) ==
    LET all == SortSet(S)
    IN  {SubSeq(all, a, b) : a \in 1..Len(all), b \in 0..Len(all)} \cap SeqsOf(S, 0, MaxSelected)

\* The records of a frame whose side break is a scalar field and whose top
\* break is a multi-select field, and the other way round
ScalarByMulti ==
    {[c \in {"B2_Participation", "E2_Sector"} |->
         IF c = "B2_Participation" THEN sv ELSE tv] :
     sv \in SideLabels, tv \in {ListCell(s) : s \in SortedRuns(TopLabels)} \cup {NaNCell}}

MultiByScalar ==
    {[c \in {"G3_GroupMember", "A7_Sex"} |->
         IF c = "G3_GroupMember" THEN sv ELSE tv] :
     sv \in MultiCells(SideLabels), tv \in {"t1", "t2"}}

\* The records of a frame whose side break is an ordinal (categorical) field
OrdinalByScalar ==
    {[c \in {"F6_FoodSituation", "A7_Sex"} |->
         IF c = "F6_FoodSituation" THEN sv ELSE tv] :
     sv \in SeqToSet(ORDINAL_COLUMNS["F6_FoodSituation"]), tv \in {"t1", "t2"}}

InitCrosstab ==
    /\ pc = "ready"
    /\ \/ /\ \E records \in SeqsOf(OrdinalByScalar, 1, MaxRecords) : dataframe = Frame(records)
          /\ request \in {[op |-> "build_crosstab", side_break |-> "F6_FoodSituation",
                            top_breaks |-> <<"A7_Sex">>, mode |-> md] : md \in Modes}
       \/ /\ \E records \in SeqsOf(ScalarByMulti, 1, MaxRecords) : dataframe = Frame(records)
          /\ request \in {[op |-> "build_crosstab", side_break |-> "B2_Participation",
                            top_breaks |-> <<"E2_Sector">>, mode |-> md] : md \in Modes}
       \/ /\ \E records \in SeqsOf(MultiByScalar, 1, MaxRecords) : dataframe = Frame(records)
          /\ request \in {[op |-> "build_crosstab", side_break |-> "G3_GroupMember",
                            top_breaks |-> <<"A7_Sex">>, mode |-> md] : md \in Modes}
    /\ result = Unset
    /\ BucketIdle /\ HandlerIdle

CallBuildCrosstab ==
    /\ pc = "ready"
    /\ request.op = "build_crosstab"
    /\ result' = build_crosstab(dataframe, request.side_break, request.top_breaks, request.mode)
    /\ pc' = "done"
    /\ UNCHANGED <<dataframe, request, bucketVars, handlerVars>>

NextCrosstab == CallBuildCrosstab

SpecCrosstab == InitCrosstab /\ [][NextCrosstab]_vars

DataRows(t) == SeqToSet(t.index) \ {TotalName}
DataCols(t) == SeqToSet(t.columns) \ {TotalName}

\* The sum of the data cells of row r, in tenths of a percent
RowCellSum(t, r) ==
    LET cols == SortSet(DataCols(t))
    IN  SumSeq([j \in 1..Len(cols) |-> t.cells[<<r, cols[j]>>]])

Abs(x) == IF x < 0 THEN -x ELSE x

RowPercentTable == pc = "done" /\ request.mode = "rowPercent" /\ result.kind = "table"

\* The rows of the table that hold at least one record
NonEmptyRows(t) ==
    {r \in DataRows(t) :
        \E k \in 1..Len(explode_columns(dataframe, <<request.side_break>> \o request.top_breaks)) :
            explode_columns(dataframe, <<request.side_break>> \o request.top_breaks)[k]
                .c[request.side_break] = r}

\* C2 as stated: in row-percent mode the data cells of every non-empty row sum
\* to between 99.9 and 100.1, for any number of columns.
C2_RowSumsWithinTenth ==
    RowPercentTable =>
        \A r \in NonEmptyRows(result) : RowCellSum(result, r) \in 999..1001

\* C2 as amended: the data cells of every non-empty row sum to 100.0 give or
\* take 0.05 per data column, hence to between 99.9 and 100.1 when the table
\* has at most three data columns.
C2_RowSumsWithinHalfTenthPerColumn ==
    RowPercentTable =>
        \A r \in NonEmptyRows(result) :
            /\ 2 * Abs(RowCellSum(result, r) - 1000) <= Cardinality(DataCols(result))
            /\ Cardinality(DataCols(result)) <= 3 => RowCellSum(result, r) \in 999..1001

C2_Witness ==
    /\ RowPercentTable
    /\ Cardinality(DataCols(result)) = 3
    /\ Cardinality(DataRows(result)) = 2
    /\ \E r \in NonEmptyRows(result) : RowCellSum(result, r) = 999

\* The sum of the data cells of column c
ColCellSum(t, c) ==
    LET rows == SortSet(DataRows(t))
    IN  SumSeq([j \in 1..Len(rows) |-> t.cells[<<rows[j], c>>]])

\* C3: the count-mode table returned by build_crosstab has a Total row holding
\* the column sums, a Total column holding the row sums and a grand-total
\* cell equal to the number of expanded rows.
C3_CountTableTotals ==
    (pc = "done" /\ request.op = "build_crosstab" /\ request.mode = "count"
        /\ explode_columns(dataframe, <<request.side_break>> \o request.top_breaks) # <<>>) =>
        /\ result.kind = "table"
        /\ TotalName \in SeqToSet(result.index) /\ TotalName \in SeqToSet(result.columns)
        /\ \A c \in DataCols(result) : result.cells[<<TotalName, c>>] = ColCellSum(result, c)
        /\ \A r \in DataRows(result) : result.cells[<<r, TotalName>>] = RowCellSum(result, r)
        /\ result.cells[<<TotalName, TotalName>>]
              = Len(explode_columns(dataframe, <<request.side_break>> \o request.top_breaks))

-----------------------------------------------------------------------------
(* analysis_table.py: the table builders                                    *)
(*                                                                         *)
(* Numbers are the strings of Digits (what pd.to_numeric parses); a float   *)
(* is an exact fraction [num, den], den = 0 standing for NaN.  The frames   *)
(* of the model have no a8_age column, so the age banding of               *)
(* _prepare_topbreak_series (lines 170-174) is never taken.                 *)

DEFAULT_BINS == 10
DEFAULT_STAT == "rowpct"
ALLOWED_STATS == {"counts", "rowpct", "colpct", "totalpct"}

Digits == <<"0", "1", "2", "3", "4", "5">>
IsNumeric(v) == v \in SeqToSet(Digits)
NumberOf(v) == (CHOOSE k \in 1..Len(Digits) : Digits[k] = v) - 1

Frac(num, den) == [num |-> num, den |-> den]
FracNaN == Frac(0, 0)

\* df[column]
Column(df, column) == [k \in 1..Len(df) |-> [i |-> df[k].i, v |-> df[k].c[column]]]

\* pd.to_numeric(series, errors="coerce")
ToNumeric(ser) == Relabel(ser, {v \in Labels(ser) : ~IsNumeric(v)}, NaN)

\* Series.nunique() of the non-missing values
NUnique(ser) == Cardinality(Labels(ser) \ {NaN})

\* lines 161-175 for a column other than a8_age
prepare_topbreak_series(df, column, limit, drop_missing, min_count) ==
    SeriesToCategorical(Column(df, column), limit, drop_missing, min_count)

RECURSIVE SortInts(_)
SortInts(S) ==
    IF S = {} THEN <<>>
    ELSE LET least == CHOOSE x \in S : \A y \in S : x <= y
         IN  <<least>> \o SortInts(S \ {least})

ValueAt(ser, i) ==
    IF \E k \in 1..Len(ser) : ser[k].i = i
    THEN ser[CHOOSE k \in 1..Len(ser) : ser[k].i = i].v
    ELSE NaN

\* pd.DataFrame({"top": a, "var": b}).dropna(): the two Series are aligned on
\* their index labels and only the rows where both have a value are kept
JoinDropNa(a, b) ==
    LET both == {i \in {a[k].i : k \in 1..Len(a)} \cap {b[k].i : k \in 1..Len(b)} :
                    ValueAt(a, i) # NaN /\ ValueAt(b, i) # NaN}
        order == SortInts(both)
    IN  [k \in 1..Len(order) |-> [i |-> order[k], top |-> ValueAt(a, order[k]),
                                  var |-> ValueAt(b, order[k])]]

\* line 178-181: f"{value:.1f}%" as tenths of a percent, "0.0%" for NaN
format_percentage(value) ==
    IF value.den = 0 THEN 0 ELSE RoundHalfEven(10 * value.num, value.den)

\* x / margin * 100 with margin.replace(0, np.nan)
PercentOf(x, margin) == IF margin = 0 THEN FracNaN ELSE Frac(100 * x, margin)

Note(text, n) == [text |-> text, n |-> n]

\* lines 184-266
build_categorical_table(df, topbreak, variable, stat, limit, drop_missing, min_count) ==
    LET raw_top == Column(df, topbreak)
        raw_var == Column(df, variable)
        top_series == prepare_topbreak_series(df, topbreak, limit, drop_missing, min_count)
        var_series == SeriesToCategorical(raw_var, limit, drop_missing, min_count)
        working == JoinDropNa(top_series, var_series)
        top_categories == Uniq([k \in 1..Len(working) |-> working[k].top])
        var_categories == Uniq([k \in 1..Len(working) |-> working[k].var])
        counts(r, c) == Cardinality({k \in 1..Len(working) :
                                        working[k].top = r /\ working[k].var = c})
        totals == Len(working)
        rowsum(r) == Cardinality({k \in 1..Len(working) : working[k].top = r})
        colsum(c) == Cardinality({k \in 1..Len(working) : working[k].var = c})
        row_pct(r, c) == PercentOf(counts(r, c), rowsum(r))
        col_pct(r, c) == PercentOf(counts(r, c), colsum(c))
        total_pct(r, c) == IF totals # 0 THEN Frac(100 * counts(r, c), totals) ELSE Frac(0, 1)
        display == [r \in 1..Len(top_categories) |->
                      [label |-> top_categories[r],
                       cells |-> [c \in 1..Len(var_categories) |->
                                    [column |-> var_categories[c],
                                     count |-> counts(top_categories[r], var_categories[c]),
                                     rowpct |-> format_percentage(
                                                   row_pct(top_categories[r], var_categories[c]))]],
                       total_count |-> rowsum(top_categories[r]),
                       total_rowpct |-> 1000]]
        stat_matrix(r, c) ==
            CASE stat = "counts" -> Frac(counts(r, c), 1)
              [] stat = "rowpct" -> row_pct(r, c)
              [] stat = "colpct" -> col_pct(r, c)
              [] stat = "totalpct" -> total_pct(r, c)
        chart_series == [c \in 1..Len(var_categories) |->
                           [name |-> var_categories[c],
                            data |-> [r \in 1..Len(top_categories) |->
                                        [x |-> top_categories[r],
                                         y |-> stat_matrix(top_categories[r], var_categories[c])]]]]
        notes == (IF NUnique(raw_var) > Cardinality(Labels(var_series))
                  THEN <<Note("Variable categories limited to top", limit)>> ELSE <<>>)
                 \o (IF NUnique(raw_top) > Cardinality(Labels(top_series))
                     THEN <<Note("Top break categories limited to top", limit)>> ELSE <<>>)
    IN  IF working = <<>>
        THEN Raised("ValueError", "No overlapping records for the selected fields")
        ELSE [kind |-> "payload",
              html |-> display,
              chart |-> [kind |-> "stacked_bar", x |-> topbreak, series |-> chart_series,
                         ylabel |-> IF stat # "counts" THEN "Percent" ELSE "Count"],
              meta |-> [topbreak |-> topbreak, variable |-> variable, n |-> totals,
                        stat |-> stat, notes |-> notes]]

\* The numbers of group g, in row order
RECURSIVE GroupValues(_, _)
GroupValues(working, g) ==
    IF working = <<>> THEN <<>>
    ELSE IF Head(working).top = g
         THEN <<NumberOf(Head(working).var)>> \o GroupValues(Tail(working), g)
         ELSE GroupValues(Tail(working), g)

SumSquares(xs) == SumSeq([k \in 1..Len(xs) |-> xs[k] * xs[k]])

MeanOf(xs) == Frac(SumSeq(xs), Len(xs))

\* the middle value, or the mean of the two middle values
MedianOf(xs) ==
    LET \* sort the values, each made distinct by its position
        sorted == SortInts({xs[k] * (Len(xs) + 1) + k : k \in 1..Len(xs)})
        at(k) == sorted[k] \div (Len(xs) + 1)
        n == Len(xs)
    IN  IF n % 2 = 1 THEN Frac(at((n + 1) \div 2), 1)
        ELSE Frac(at(n \div 2) + at(n \div 2 + 1), 2)

\* Sample standard deviation (ddof = 1), carried as its square, the variance
\* (n * sum x^2 - (sum x)^2) / (n * (n - 1)); NaN for a single observation
StdOf(xs) ==
    LET n == Len(xs)
    IN  IF n < 2 THEN FracNaN
        ELSE Frac(n * SumSquares(xs) - SumSeq(xs) * SumSeq(xs), n * (n - 1))

\* mutant: the NaN of a one-observation group is left in place
FillNaStdIdentity(std) == std

\* line 288: summary["std"].fillna(0.0)
FillNaStd(std) == IF std.den = 0 THEN Frac(0, 1) ELSE std

MinOf(S) == CHOOSE x \in S : \A y \in S : x <= y
MaxOf(S) == CHOOSE x \in S : \A y \in S : x >= y

\* np.histogram_bin_edges(values, bins): equal-width edges from the minimum to
\* the maximum, in half units so that the widened range of a single distinct
\* value (min - 0.5, max + 0.5) stays exact: edge k = EdgeNum(k) / (2 * bins)
HistLow2(values) ==
    IF MinOf(values) = MaxOf(values) THEN 2 * MinOf(values) - 1 ELSE 2 * MinOf(values)
HistHigh2(values) ==
    IF MinOf(values) = MaxOf(values) THEN 2 * MaxOf(values) + 1 ELSE 2 * MaxOf(values)
BinEdge(values, bins, k) ==
    Frac(HistLow2(values) * bins + k * (HistHigh2(values) - HistLow2(values)), 2 * bins)

\* mutant: every bin half-open, the final one included
BinOfHalfOpen(values, bins, x) ==
    ((2 * x - HistLow2(values)) * bins) \div (HistHigh2(values) - HistLow2(values))

\* np.histogram(group, bins=edges): bins are half-open, the last one closed
BinOf(values, bins, x) ==
    Min(bins - 1, ((2 * x - HistLow2(values)) * bins) \div (HistHigh2(values) - HistLow2(values)))

\* f"{edge:.1f}" in tenths
EdgeLabel(edge) ==
    IF edge.num >= 0 THEN RoundHalfEven(10 * edge.num, edge.den)
    ELSE -RoundHalfEven(10 * (-edge.num), edge.den)

\* lines 269-351
build_numeric_table(df, topbreak, variable, limit, drop_missing, min_count, bins) ==
    LET top_series == prepare_topbreak_series(df, topbreak, limit, drop_missing, min_count)
        numeric_series == ToNumeric(Column(df, variable))
        working == JoinDropNa(top_series, numeric_series)
        groups == SortSet({working[k].top : k \in 1..Len(working)})
        summary == [g \in 1..Len(groups) |->
                      LET xs == GroupValues(working, groups[g])
                      IN  [top |-> groups[g], count |-> Len(xs), mean |-> MeanOf(xs),
                           median |-> MedianOf(xs), std |-> FillNaStd(StdOf(xs))]]
        chart_series == << [name |-> "mean",
                            data |-> [g \in 1..Len(summary) |->
                                        [x |-> summary[g].top, y |-> summary[g].mean,
                                         error |-> summary[g].std]]] >>
        valid_values == {NumberOf(working[k].var) : k \in 1..Len(working)}
        labels == [b \in 1..bins |-> <<EdgeLabel(BinEdge(valid_values, bins, b - 1)),
                                        EdgeLabel(BinEdge(valid_values, bins, b))>>]
        histogram_series ==
            [g \in 1..Len(groups) |->
                [name |-> groups[g],
                 data |-> [b \in 1..bins |->
                             [x |-> labels[b],
                              y |-> Cardinality({k \in 1..Len(working) :
                                        /\ working[k].top = groups[g]
                                        /\ BinOf(valid_values, bins, NumberOf(working[k].var)) = b - 1})]]]]
    IN  IF working = <<>>
        THEN Raised("ValueError", "No numeric values available for the selected fields")
        ELSE IF bins < 1
        THEN Raised("ValueError", "bins must be positive")
        ELSE [kind |-> "payload",
              html |-> summary,
              chart |-> [kind |-> "grouped_bar", x |-> topbreak, series |-> chart_series,
                         histogram |-> [kind |-> "hist", x |-> "value_bin",
                                        series |-> histogram_series]],
              meta |-> [topbreak |-> topbreak, variable |-> variable, n |-> Len(working),
                        stat |-> "summary",
                        notes |-> <<Note("Histogram computed with bins", bins)>>]]

\* lines 354-397
build_single_categorical(df, variable, limit, drop_missing, min_count) ==
    LET ser == SeriesToCategorical(Column(df, variable), limit, drop_missing, min_count)
        counts == ValueCountsIndex(ser)
        n(l) == CountOf(Values(ser), l)
        display == [k \in 1..Len(counts) |->
                      [label |-> counts[k], count |-> n(counts[k]),
                       percent |-> format_percentage(Frac(100 * n(counts[k]), Len(ser)))]]
    IN  IF ser = <<>>
        THEN Raised("ValueError", "No records available for the selected variable")
        ELSE [kind |-> "payload",
              html |-> display,
              chart |-> [kind |-> "bar", x |-> variable,
                         series |-> << [name |-> "count",
                                        data |-> [k \in 1..Len(counts) |->
                                                    [x |-> counts[k], y |-> n(counts[k])]]] >>],
              meta |-> [topbreak |-> Unset, variable |-> variable, n |-> Len(ser),
                        stat |-> "counts", notes |-> <<>>]]

-----------------------------------------------------------------------------
(* Specification SpecNumeric: one call of _build_numeric_table              *)

MaxTableRows == 3
TopBreakField == "a7_sex"
VariableField == "score"
TopValues == {"f", "m", NaN}
VariableValues == {"1", "3", "a", NaN}
LimitChoices == {0, 2}
MinCountChoices == {1, 2}
BinChoices == {0, 1, 3}

\* The rows of a cached frame: _load_dataset has normalised every value
TableRecords ==
    {[c \in {TopBreakField, VariableField} |-> IF c = TopBreakField THEN tv ELSE vv] :
     tv \in TopValues, vv \in VariableValues}

InitNumeric ==
    /\ pc = "ready"
    /\ \E records \in SeqsOf(TableRecords, 1, MaxTableRows) : dataframe = Frame(records)
    /\ request \in {[op |-> "build_numeric_table", topbreak |-> TopBreakField,
                      variable |-> VariableField, limit |-> l, drop_missing |-> d,
                      min_count |-> mc, bins |-> b] :
                     l \in LimitChoices, d \in BOOLEAN, mc \in MinCountChoices, b \in BinChoices}
    /\ result = Unset
    /\ BucketIdle /\ HandlerIdle

CallBuildNumericTable ==
    /\ pc = "ready"
    /\ request.op = "build_numeric_table"
    /\ result' = build_numeric_table(dataframe, request.topbreak, request.variable,
                                     request.limit, request.drop_missing,
                                     request.min_count, request.bins)
    /\ pc' = "done"
    /\ UNCHANGED <<dataframe, request, bucketVars, handlerVars>>

NextNumeric == CallBuildNumericTable

SpecNumeric == InitNumeric /\ [][NextNumeric]_vars

\* The index labels of the valid numeric observations of group g: the rows
\* whose bucketed top break is g and whose variable parses as a number
ObservationsOf(g) ==
    LET top_series == prepare_topbreak_series(dataframe, request.topbreak, request.limit,
                                              request.drop_missing, request.min_count)
    IN  {k \in 1..Len(dataframe) :
            /\ ValueAt(top_series, dataframe[k].i) = g
            /\ IsNumeric(dataframe[k].c[request.variable])}

GroupLabels == {"f", "m", MissingLabel, OtherLabel, RareLabel(2)}

SummaryRows(g) == {k \in 1..Len(result.html) : result.html[k].top = g}

NumericPayload == pc = "done" /\ request.op = "build_numeric_table" /\ result.kind = "payload"

\* C10: a group with exactly one valid numeric observation reports count 1,
\* mean and median equal to that observation and std = 0 (never NaN), in the
\* summary table and as the chart error value.
C10_SingleObservationStdZero ==
    NumericPayload =>
        \A g \in GroupLabels :
            Cardinality(ObservationsOf(g)) = 1 =>
                LET x == NumberOf(dataframe[CHOOSE k \in ObservationsOf(g) : TRUE].c[request.variable])
                IN  /\ Cardinality(SummaryRows(g)) = 1
                    /\ \A k \in SummaryRows(g) :
                          /\ result.html[k].count = 1
                          /\ result.html[k].mean = Frac(x, 1)
                          /\ result.html[k].median = Frac(x, 1)
                          /\ result.html[k].std = Frac(0, 1)
                          /\ result.chart.series[1].data[k].x = g
                          /\ result.chart.series[1].data[k].y = Frac(x, 1)
                          /\ result.chart.series[1].data[k].error = Frac(0, 1)

C10_Witness ==
    /\ NumericPayload
    /\ Cardinality(ObservationsOf("f")) = 1
    /\ Cardinality(ObservationsOf("m")) = 2
    /\ \E k \in SummaryRows("f") : result.html[k].std = Frac(0, 1) /\ result.html[k].mean = Frac(3, 1)
    /\ \E k \in SummaryRows("m") : result.html[k].std = Frac(4, 2)

-----------------------------------------------------------------------------
(* analysis_table.py: dataset cache, schema and table responses, handler    *)

CURATED_TOP_BREAKS ==
    <<"a3_select_the_lga", "a3b_select_the_ward", "a7_sex", "a8_age",
      "c4_current_employment_status", "d2_type_of_enterprise", "e2_business_sector",
      "g3_member_of_mens_womens_or_youth_group", "h1_satisfaction_with_ogstep",
      "h2_trust_in_implementing_institutions">>

\* JSON null in a fetched row
JsonNull == "<null>"

\* str.strip() on the strings of the model
Strip(v) == IF v \in {" ", "  "} THEN "" ELSE v

\* lines 79-85
normalize_value(value) ==
    IF value = JsonNull THEN NaN
    ELSE IF Strip(value) # "" THEN Strip(value) ELSE NaN

\* df.columns, in the key order of the fetched rows
FieldOrder == <<TopBreakField, VariableField>>

RECURSIVE SelectSeq2(_, _)
SelectSeq2(s, S) ==
    IF s = <<>> THEN <<>>
    ELSE IF Head(s) \in S THEN <<Head(s)>> \o SelectSeq2(Tail(s), S)
         ELSE SelectSeq2(Tail(s), S)

\* lines 102-122
infer_fields(df) ==
    LET columns == SelectSeq2(FieldOrder, ColumnsOf(df))
    IN  [k \in 1..Len(columns) |->
            LET non_null == DropNa(ReplaceEmpty(Column(df, columns[k])))
                numeric == Cardinality({j \in 1..Len(non_null) : IsNumeric(non_null[j].v)})
                \* numeric_ratio >= 0.8, with numeric_ratio = 0.0 when nothing is left
                is_numeric == Len(non_null) > 0 /\ 5 * numeric >= 4 * Len(non_null)
            IN  [name |-> columns[k],
                 type |-> IF is_numeric THEN "numeric" ELSE "categorical",
                 distinct_count |-> NUnique(non_null)]]

\* lines 94-96: pd.DataFrame(rows) with every value normalised
NormalizedFrame(rows) ==
    [k \in 1..Len(rows) |->
        [i |-> k, c |-> [col \in DOMAIN rows[k] |-> normalize_value(rows[k][col])]]]

\* lines 66-76 and 92: what the fetch of the dashboard payload can do
FetchFailures == {"HTTPError", "URLError", "JSONDecodeError"}

\* The exception that leaves _fetch_dashboard_payload
FetchException(outcome) ==
    CASE outcome = "HTTPError" -> "RuntimeError"
      [] outcome = "URLError" -> "RuntimeError"
      [] outcome = "JSONDecodeError" -> "JSONDecodeError"

\* mutant: a payload without rows is returned but not cached
load_dataset_skip_empty(cache, outcome) ==
    IF cache.df # None
    THEN [raised |-> "", cache |-> cache, df |-> cache.df[1], fetched |-> FALSE]
    ELSE IF outcome.failure # ""
    THEN [raised |-> FetchException(outcome.failure), cache |-> cache, df |-> <<>>,
          fetched |-> TRUE]
    ELSE [raised |-> "",
          cache |-> IF outcome.rows = <<>> THEN cache
                    ELSE [df |-> Some(NormalizedFrame(outcome.rows)),
                          fields |-> Some(infer_fields(NormalizedFrame(outcome.rows)))],
          df |-> NormalizedFrame(outcome.rows), fetched |-> TRUE]

\* lines 88-99.  outcome is [failure |-> one of FetchFailures or "", rows |-> the
\* rows of the payload]; it is read only when the cache holds no frame.  Returns the
\* exception raised ("" for none), the cache afterwards, the caller's copy of
\* the frame and whether a fetch was made.
load_dataset(cache, outcome) ==
    IF cache.df # None
    THEN [raised |-> "", cache |-> cache, df |-> cache.df[1], fetched |-> FALSE]
    ELSE IF outcome.failure # ""
    THEN [raised |-> FetchException(outcome.failure), cache |-> cache, df |-> <<>>,
          fetched |-> TRUE]
    ELSE LET df == NormalizedFrame(outcome.rows)
         IN  [raised |-> "", cache |-> [df |-> Some(df), fields |-> Some(infer_fields(df))],
              df |-> df, fetched |-> TRUE]

\* _DATA_CACHE.get("fields") or _infer_fields(df)
FieldsOr(cache, df) ==
    IF cache.fields # None /\ cache.fields[1] # <<>> THEN cache.fields[1] ELSE infer_fields(df)

\* lines 34-39
json_response(payload, status) == [raised |-> "", statusCode |-> status, body |-> payload]
ErrorBody(message) == [kind |-> "error", error |-> message]
Escapes(exception) == [raised |-> exception, statusCode |-> 0, body |-> [kind |-> "none"]]

\* lines 400-421, given the frame and the cache _load_dataset left
schema_response(cache, df) ==
    LET fields == FieldsOr(cache, df)
        names(type) == SelectSeq2([k \in 1..Len(fields) |-> fields[k].name],
                                  {fields[k].name : k \in {j \in 1..Len(fields) :
                                        /\ fields[j].type = type
                                        /\ type = "categorical" => fields[j].distinct_count <= 30}})
        categorical_candidates == names("categorical")
        numeric_candidates == names("numeric")
        available == {fields[k].name : k \in 1..Len(fields)}
        curated == SelectSeq2(CURATED_TOP_BREAKS, available)
        auto == SeqToSet(categorical_candidates) \ SeqToSet(curated)
    IN  json_response([kind |-> "schema", fields |-> fields,
                       topbreak_candidates |-> curated \o SortSet(auto),
                       numeric_candidates |-> numeric_candidates,
                       categorical_candidates |-> categorical_candidates], 200)

\* int(params.get(name, default)), falling back to the default on ValueError
ParseInt(value, default) ==
    IF value = Unset THEN default
    ELSE IF IsNumeric(value) THEN NumberOf(value) ELSE default

\* mutant: the default is ignored, an absent parameter reads as false
parse_bool_no_default(value, default) == value \in {"1", "true", "yes"}

\* lines 424-432
parse_bool(value, default) ==
    IF value = Unset THEN default
    ELSE IF value \in {"1", "true", "yes"} THEN TRUE
    ELSE IF value \in {"0", "false", "no"} THEN FALSE
    ELSE default

\* lines 479-512: the builder returned its payload or raised
Built(builder, payload) ==
    [called |-> builder,
     response |-> IF payload.kind = "error"
                  THEN IF payload.error = "ValueError"
                       THEN json_response(ErrorBody(payload.message), 400)
                       ELSE Escapes(payload.error)
                  ELSE json_response(payload, 200)]

\* mutant: a rejected request answered with status 200
RejectedWith200(message) ==
    [response |-> json_response(ErrorBody(message), 200), called |-> ""]

\* return _json_response({"error": ...}, status=400) ahead of the builders
Rejected(message) ==
    [response |-> json_response(ErrorBody(message), 400), called |-> ""]

\* lines 435-512, given the frame and the cache _load_dataset left.  Returns
\* the response and the builder that was called ("" for none).
table_response(cache, loaded_df, params) ==
    LET topbreak == params.topbreak
        variable == params.variable
        stat == IF params.stat = Unset THEN DEFAULT_STAT ELSE params.stat
        limit == ParseInt(params.limit_categories, DEFAULT_LIMIT_CATEGORIES)
        bins == ParseInt(params.bins, DEFAULT_BINS)
        min_count == ParseInt(params.min_count, DEFAULT_MIN_COUNT)
        drop_missing == parse_bool(params.drop_missing, TRUE)
        take == ParseInt(params.take, 0)
        df == IF take > 0 THEN Take(loaded_df, take) ELSE loaded_df
        fields == FieldsOr(cache, df)
        fields_lookup == [name \in {fields[k].name : k \in 1..Len(fields)} |->
                             fields[CHOOSE k \in 1..Len(fields) : fields[k].name = name]]
    IN  IF loaded_df = <<>>
        THEN Rejected("Dataset is empty")
        ELSE IF variable \in {Unset, ""}
        THEN Rejected("variable parameter is required")
        ELSE IF stat \notin ALLOWED_STATS
        THEN Rejected("Unsupported stat")
        ELSE IF variable \notin DOMAIN fields_lookup
        THEN Rejected("Unknown variable")
        ELSE IF topbreak \notin {Unset, ""} /\ topbreak \notin ColumnsOf(df)
        THEN Rejected("Unknown top break")
        ELSE IF topbreak \notin {Unset, ""}
        THEN IF fields_lookup[variable].type = "numeric"
             THEN Built("_build_numeric_table",
                        build_numeric_table(df, topbreak, variable, limit, drop_missing,
                                            min_count, bins))
             ELSE Built("_build_categorical_table",
                        build_categorical_table(df, topbreak, variable, stat, limit,
                                                drop_missing, min_count))
        ELSE Built("_build_single_categorical",
                   build_single_categorical(df, variable, limit, drop_missing, min_count))

\* lines 515-521, after _load_dataset ran for the reader
Dispatch(loaded, event) ==
    LET fetch == IF loaded.fetched THEN {"_fetch_dashboard_payload"} ELSE {}
        answered(resp, called) ==
            [response |-> resp, cache |-> loaded.cache, calls |-> fetch \cup called]
        tabled(table) == answered(table.response, IF table.called = "" THEN {} ELSE {table.called})
    IN  IF loaded.raised # ""
        THEN answered(Escapes(loaded.raised), {})
        ELSE IF event.path = "/schema"
        THEN answered(schema_response(loaded.cache, loaded.df), {})
        ELSE tabled(table_response(loaded.cache, loaded.df, event.params))

\* lines 515-521, with _load_dataset's fetch resolved by outcome.  Returns the
\* response, the cache afterwards and the functions called.
handler(cache, event, outcome) == Dispatch(load_dataset(cache, outcome), event)

-----------------------------------------------------------------------------
(* Specification: invocations of handler on one warm instance               *)

MaxPayloadRows == 2

RawTopValues == {"m", " ", JsonNull}
RawVariableValues == {"a", "1", JsonNull}

PayloadRows ==
    {[c \in {TopBreakField, VariableField} |-> IF c = TopBreakField THEN tv ELSE vv] :
     tv \in RawTopValues, vv \in RawVariableValues}

FetchOutcomes ==
    {[failure |-> f, rows |-> <<>>] : f \in FetchFailures}
        \cup {[failure |-> "", rows |-> rows] : rows \in SeqsOf(PayloadRows, 0, MaxPayloadRows)}

\* No fetch is made while the cache holds a frame
NoFetch == [failure |-> "", rows |-> <<>>]

NoParams ==
    [topbreak |-> Unset, variable |-> Unset, stat |-> Unset, limit_categories |-> Unset,
     bins |-> Unset, min_count |-> Unset, drop_missing |-> Unset, take |-> Unset]

Events ==
    {[path |-> "/schema", params |-> NoParams]}
        \cup {[path |-> "/table",
               params |-> [NoParams EXCEPT !.topbreak = t, !.variable = v, !.stat = s,
                                           !.drop_missing = d, !.take = k]] :
              t \in {Unset, TopBreakField, "nope"}, v \in {Unset, VariableField, "nope"},
              s \in {Unset, "rowpct", "median"}, d \in {Unset, "false", "yes"},
              k \in {Unset, "1"}}

InitHandler ==
    /\ pc = "ready"
    /\ dataframe = <<>> /\ result = Unset /\ request = Unset
    /\ BucketIdle /\ HandlerIdle

\* What an invocation leaves behind
Returned(event, out) ==
    /\ request' = event
    /\ DATA_CACHE' = out.cache
    /\ response' = out.response
    /\ calls' = out.calls

\* One invocation of handler(event, _context)
CallHandler ==
    /\ pc = "ready"
    /\ \E event \in Events,
          outcome \in IF DATA_CACHE.df = None THEN FetchOutcomes ELSE {NoFetch} :
          Returned(event, handler(DATA_CACHE, event, outcome))
    /\ pc' = "responded"
    /\ UNCHANGED <<bucketVars, dataframe, result, threads>>

\* The instance waits for its next invocation; _DATA_CACHE stays
AwaitInvocation ==
    /\ pc = "responded"
    /\ pc' = "ready"
    /\ request' = Unset /\ response' = NoResponse /\ calls' = {}
    /\ UNCHANGED <<bucketVars, dataframe, result, DATA_CACHE, threads>>

NextHandler == CallHandler \/ AwaitInvocation

SpecHandler == InitHandler /\ [][NextHandler]_vars

\* The dataset the answered request ran on
ServedDataset == IF DATA_CACHE.df = None THEN <<>> ELSE DATA_CACHE.df[1]

TableRequestAnswered == pc = "responded" /\ request.path = "/table"

Builders == {"_build_numeric_table", "_build_categorical_table", "_build_single_categorical"}

EmptyJoinMessages ==
    {"No overlapping records for the selected fields",
     "No numeric values available for the selected fields"}

EmptyJoinError ==
    /\ response.raised = "" /\ response.statusCode = 400
    /\ response.body.kind = "error" /\ response.body.error \in EmptyJoinMessages

\* A valid request with a top break and a variable, on a non-empty dataset in
\* which every record misses a value on at least one of the two axes
EveryRecordMissesAnAxis ==
    /\ TableRequestAnswered
    /\ ServedDataset # <<>>
    /\ request.params.topbreak = TopBreakField /\ request.params.variable = VariableField
    /\ request.params.stat \in {Unset, "rowpct"}
    /\ \A k \in 1..Len(ServedDataset) :
          ServedDataset[k].c[TopBreakField] = NaN \/ ServedDataset[k].c[VariableField] = NaN

VariableType ==
    LET fields == infer_fields(ServedDataset)
    IN  fields[CHOOSE k \in 1..Len(fields) : fields[k].name = VariableField].type

\* C4 as stated: when every record misses a value on one of the two axes the
\* request returns the empty-join error, whatever drop_missing is
C4_EmptyJoinAnyDropMissing == EveryRecordMissesAnAxis => EmptyJoinError

\* C4, amended: when every record misses a value on one of the two axes and
\* drop_missing is true (the default), the request returns the empty-join error
\* and no table or chart, for categorical and for numeric variables
C4_EmptyJoinWhenDroppingMissing ==
    (EveryRecordMissesAnAxis /\ request.params.drop_missing \notin {"0", "false", "no"})
        => EmptyJoinError /\ calls \cap Builders # {}

\* A numeric variable whose only observation has no top break value
C4_Witness ==
    /\ EveryRecordMissesAnAxis /\ request.params.drop_missing = Unset
    /\ Len(ServedDataset) = 2 /\ VariableType = "numeric"
    /\ ServedDataset[1].c[TopBreakField] = NaN /\ ServedDataset[1].c[VariableField] = "1"
    /\ response.body.kind = "error"

\* C5 as stated: every invocation of handler returns a structured response,
\* the payload or an error body, and no exception leaves handler
C5_AlwaysStructuredResponse ==
    pc = "responded" =>
        /\ response.raised = ""
        /\ response.statusCode \in {200, 400}
        /\ response.body.kind \in {"payload", "schema", "error"}

\* The conditions under which a table request is invalid
InvalidRequest ==
    \/ request.params.variable = Unset
    \/ request.params.stat \notin {Unset, "counts", "rowpct", "colpct", "totalpct"}
    \/ request.params.variable \notin ColumnsOf(ServedDataset)
    \/ request.params.topbreak # Unset /\ request.params.topbreak \notin ColumnsOf(ServedDataset)

\* C6: an invalid table request on a non-empty dataset is answered with status
\* 400 and an error body, without table, chart or meta, and no builder is called
C6_ValidationErrorsRejected ==
    (TableRequestAnswered /\ ServedDataset # <<>> /\ InvalidRequest) =>
        /\ response.raised = "" /\ response.statusCode = 400
        /\ response.body.kind = "error" /\ DOMAIN response.body = {"kind", "error"}
        /\ calls \cap Builders = {}

\* An unknown top break on an otherwise valid request, served from the cache
C6_Witness ==
    /\ TableRequestAnswered /\ ServedDataset # <<>>
    /\ request.params.variable = VariableField /\ request.params.topbreak = "nope"
    /\ request.params.stat = Unset
    /\ response.statusCode = 400 /\ calls = {}

-----------------------------------------------------------------------------
(* Specification: requests running concurrently on one instance, one step   *)
(* per statement of _load_dataset and of the readers                        *)

MaxThreads == 2

\* The payloads the dashboard endpoint serves while the survey goes on
ConcSnapshots ==
    {<<[c \in {TopBreakField, VariableField} |-> IF c = TopBreakField THEN "m" ELSE vv]>> :
     vv \in {"a", "1"}}

IdleThread == [pc |-> "idle", path |-> "", new |-> None, df |-> None, fields |-> None]

InitConc ==
    /\ pc = "ready"
    /\ dataframe = <<>> /\ result = Unset /\ request = Unset
    /\ BucketIdle
    /\ DATA_CACHE = EmptyCache /\ response = NoResponse /\ calls = {}
    /\ threads = [t \in 1..MaxThreads |-> IdleThread]

ConcUnchanged == UNCHANGED <<pc, bucketVars, appVars, response, calls>>

\* lines 515-521: a request arrives, handler picks the reader
BeginRequest(t) ==
    /\ threads[t].pc = "idle"
    /\ \E path \in {"/schema", "/table"} :
          threads' = [threads EXCEPT ![t] = [IdleThread EXCEPT !.pc = "load", !.path = path]]
    /\ UNCHANGED DATA_CACHE /\ ConcUnchanged

\* lines 89-90: the reader takes a copy of the cached frame, if there is one
CheckCache(t) ==
    /\ threads[t].pc = "load"
    /\ threads' = [threads EXCEPT ![t] =
                      IF DATA_CACHE.df # None
                      THEN [@ EXCEPT !.pc = "loaded", !.df = DATA_CACHE.df]
                      ELSE [@ EXCEPT !.pc = "fetch"]]
    /\ UNCHANGED DATA_CACHE /\ ConcUnchanged

\* lines 92-96: the fetch returns the payload of the moment
FetchPayload(t) ==
    /\ threads[t].pc = "fetch"
    /\ \E rows \in ConcSnapshots :
          threads' = [threads EXCEPT ![t] =
                         [@ EXCEPT !.pc = "store_df", !.new = Some(NormalizedFrame(rows))]]
    /\ UNCHANGED DATA_CACHE /\ ConcUnchanged

\* lines 66-76 and 92: the fetch raises and the request ends
FetchFails(t) ==
    /\ threads[t].pc = "fetch"
    /\ threads' = [threads EXCEPT ![t] = IdleThread]
    /\ UNCHANGED DATA_CACHE /\ ConcUnchanged

\* line 97: _DATA_CACHE["df"] = df
StoreDf(t) ==
    /\ threads[t].pc = "store_df"
    /\ DATA_CACHE' = [DATA_CACHE EXCEPT !.df = threads[t].new]
    /\ threads' = [threads EXCEPT ![t].pc = "store_fields"]
    /\ ConcUnchanged

\* lines 98-99: _DATA_CACHE["fields"] = _infer_fields(df); return df.copy()
StoreFields(t) ==
    /\ threads[t].pc = "store_fields"
    /\ DATA_CACHE' = [DATA_CACHE EXCEPT !.fields = Some(infer_fields(threads[t].new[1]))]
    /\ threads' = [threads EXCEPT ![t] = [@ EXCEPT !.pc = "loaded", !.df = threads[t].new]]
    /\ ConcUnchanged

\* lines 402 and 472: _DATA_CACHE.get("fields") or _infer_fields(df)
ReadFields(t) ==
    /\ threads[t].pc = "loaded"
    /\ threads' = [threads EXCEPT ![t] =
                      [@ EXCEPT !.pc = "have_fields",
                                !.fields = Some(FieldsOr(DATA_CACHE, threads[t].df[1]))]]
    /\ UNCHANGED DATA_CACHE /\ ConcUnchanged

\* lines 403-421 and 473-512: the response is computed from the locals
Respond(t) ==
    /\ threads[t].pc = "have_fields"
    /\ threads' = [threads EXCEPT ![t] = IdleThread]
    /\ UNCHANGED DATA_CACHE /\ ConcUnchanged

NextConc ==
    \E t \in 1..MaxThreads :
        \/ BeginRequest(t)
        \/ CheckCache(t)
        \/ FetchPayload(t)
        \/ FetchFails(t)
        \/ StoreDf(t)
        \/ StoreFields(t)
        \/ ReadFields(t)
        \/ Respond(t)

SpecConc == InitConc /\ [][NextConc]_vars

\* C7 as stated: the frame and the field list a reader uses for one request
\* belong to the same snapshot
C7_ReaderSeesOneSnapshot ==
    \A t \in DOMAIN threads :
        threads[t].pc = "have_fields" => threads[t].fields[1] = infer_fields(threads[t].df[1])

\* The cached frame changes only by the assignment of line 97
CacheFrameOnlyReplaced ==
    [][DATA_CACHE'.df # DATA_CACHE.df => \E t \in DOMAIN threads : threads[t].pc = "store_df"]_vars

-----------------------------------------------------------------------------
(* Histogram of _build_numeric_table, checked under SpecNumeric             *)

\* The valid numeric observations of all groups, as row positions
ValidObservations == UNION {ObservationsOf(g) : g \in GroupLabels}

ObservedValue(k) == NumberOf(dataframe[k].c[request.variable])

ObservedValues == {ObservedValue(k) : k \in ValidObservations}

HistogramSeries == result.chart.histogram.series

\* Edge k of request.bins equal-width bins over [low2 / 2, high2 / 2], times 2 * bins
ScaledEdge(low2, high2, k) == low2 * request.bins + k * (high2 - low2)

\* Observation x lies in bin b: half-open, the final bin closed on both ends
InBin(low2, high2, b, x) ==
    /\ 2 * x * request.bins >= ScaledEdge(low2, high2, b - 1)
    /\ \/ 2 * x * request.bins < ScaledEdge(low2, high2, b)
       \/ b = request.bins /\ 2 * x * request.bins = ScaledEdge(low2, high2, b)

\* The histogram has the shared edges of [low2 / 2, high2 / 2], each bin of each
\* group counts the group's observations lying in it, and the counts add up to n
HistogramOver(low2, high2) ==
    /\ \A g \in 1..Len(HistogramSeries) :
          /\ Len(HistogramSeries[g].data) = request.bins
          /\ \A b \in 1..request.bins :
                /\ HistogramSeries[g].data[b].x =
                       <<EdgeLabel(Frac(ScaledEdge(low2, high2, b - 1), 2 * request.bins)),
                         EdgeLabel(Frac(ScaledEdge(low2, high2, b), 2 * request.bins))>>
                /\ HistogramSeries[g].data[b].y =
                       Cardinality({k \in ObservationsOf(HistogramSeries[g].name) :
                                       InBin(low2, high2, b, ObservedValue(k))})
    /\ \A g \in GroupLabels :
          ObservationsOf(g) # {} =>
              /\ Cardinality({h \in 1..Len(HistogramSeries) : HistogramSeries[h].name = g}) = 1
              /\ \A k \in ObservationsOf(g) :
                    Cardinality({b \in 1..request.bins :
                                    InBin(low2, high2, b, ObservedValue(k))}) = 1
    /\ SumSeq([g \in 1..Len(HistogramSeries) |->
                  SumSeq([b \in 1..request.bins |-> HistogramSeries[g].data[b].y])])
          = result.meta.n
    /\ result.meta.n = Cardinality(ValidObservations)

\* C11 as stated: the shared bin edges span the minimum to the maximum valid
\* value, every observation is counted in exactly one bin of its own group and
\* the counts add up to meta.n
C11_EdgesSpanMinToMax ==
    NumericPayload => HistogramOver(2 * MinOf(ObservedValues), 2 * MaxOf(ObservedValues))

\* C11, amended: as stated when the valid values differ; when they are all
\* equal to v the shared edges span v - 0.5 to v + 0.5
C11_SharedEdgesPartitionObservations ==
    NumericPayload =>
        IF MinOf(ObservedValues) = MaxOf(ObservedValues)
        THEN HistogramOver(2 * MinOf(ObservedValues) - 1, 2 * MaxOf(ObservedValues) + 1)
        ELSE HistogramOver(2 * MinOf(ObservedValues), 2 * MaxOf(ObservedValues))

\* Two groups, three bins over 1..3, the maximum counted in the final bin
C11_Witness ==
    /\ NumericPayload /\ request.bins = 3
    /\ ObservedValues = {1, 3}
    /\ Len(HistogramSeries) = 2
    /\ \E g \in 1..2 : HistogramSeries[g].data[3].y = 1 /\ HistogramSeries[g].data[1].y = 1
    /\ result.meta.n = 3

-----------------------------------------------------------------------------
(* app.py: build_insights                                                   *)

\* str.lower() on the labels of the model
Lower(label) ==
    CASE label = "Yes" -> "yes"
      [] label = "No" -> "no"
      [] label = "Maybe" -> "maybe"
      [] OTHER -> label

\* zip(treatment_values, control_values) with t - c, in tenths of a point
Differences(treatment_values, control_values) ==
    [k \in 1..Min(Len(treatment_values), Len(control_values)) |->
        treatment_values[k] - control_values[k]]

\* mutant: the last index of the largest absolute difference
ArgMaxAbsLast(differences) ==
    CHOOSE k \in 1..Len(differences) :
        /\ \A j \in 1..Len(differences) : Abs(differences[j]) <= Abs(differences[k])
        /\ \A j \in (k + 1)..Len(differences) : Abs(differences[j]) < Abs(differences[k])

\* int(np.argmax(np.abs(differences))): the first index of the largest value
ArgMaxAbs(differences) ==
    CHOOSE k \in 1..Len(differences) :
        /\ \A j \in 1..Len(differences) : Abs(differences[j]) <= Abs(differences[k])
        /\ \A j \in 1..(k - 1) : Abs(differences[j]) < Abs(differences[k])

\* lines 346-356: the comparison sentence, by its variable parts
ComparisonSentence(labels, differences) ==
    LET max_idx == ArgMaxAbs(differences)
    IN  [text |-> "Treatment group shows {points} percentage points {comparator} {label} compared with the control group.",
         points |-> Abs(differences[max_idx]),
         comparator |-> IF differences[max_idx] > 0 THEN "higher" ELSE "lower",
         label |-> Lower(labels[max_idx])]

FixedSentence(text) == [text |-> text, points |-> 0, comparator |-> "", label |-> ""]

\* lines 328-365.  chart_payload is None or Some([labels, datasets])
build_insights(chart_payload, mode) ==
    IF chart_payload = None THEN <<>>
    ELSE IF chart_payload[1].labels = <<>> \/ Len(chart_payload[1].datasets) < 2 THEN <<>>
    ELSE IF chart_payload[1].datasets[1].data = <<>> \/ chart_payload[1].datasets[2].data = <<>>
    THEN <<>>
    ELSE <<ComparisonSentence(chart_payload[1].labels,
                              Differences(chart_payload[1].datasets[1].data,
                                          chart_payload[1].datasets[2].data)),
           FixedSentence("Column percentages allow stakeholders to compare programme reach between pathways regardless of sample size differences."),
           IF mode = "count"
           THEN FixedSentence("Switch to Row % or Total % to normalise for different respondent bases across banners.")
           ELSE FixedSentence("Download the crosstab to slice deeper by demographics or support type combinations.")>>

-----------------------------------------------------------------------------
(* Specification: one call of build_insights on a chart payload             *)

MaxChartLabels == 2
MaxDatasets == 3

ChartLabelNames == {"Yes", "No", "Maybe"}
ChartValues == {0, 250, 1000}

ChartLabels ==
    {labels \in SeqsOf(ChartLabelNames, 0, MaxChartLabels) :
        \A j, k \in 1..Len(labels) : labels[j] = labels[k] => j = k}

\* A series holds one value per label, or nothing
ChartData(labels) == {<<>>} \cup SeqsOf(ChartValues, Len(labels), Len(labels))

ChartPayloads ==
    {None} \cup
    UNION {{Some([labels |-> labels,
                  datasets |-> [k \in 1..Len(data) |-> [label |-> "", data |-> data[k]]]]) :
            data \in SeqsOf(ChartData(labels), 0, MaxDatasets)} : labels \in ChartLabels}

InitInsights ==
    /\ pc = "ready"
    /\ dataframe = <<>>
    /\ request \in {[op |-> "build_insights", chart |-> chart, mode |-> mode] :
                       chart \in ChartPayloads, mode \in {"count", "rowPercent"}}
    /\ result = Unset
    /\ BucketIdle /\ HandlerIdle

CallBuildInsights ==
    /\ pc = "ready"
    /\ request.op = "build_insights"
    /\ result' = build_insights(request.chart, request.mode)
    /\ pc' = "done"
    /\ UNCHANGED <<dataframe, request, bucketVars, handlerVars>>

NextInsights == CallBuildInsights

SpecInsights == InitInsights /\ [][NextInsights]_vars

InsightsDone == pc = "done" /\ request.op = "build_insights"

\* The payload has two series with data and a label for each compared pair
Comparable ==
    /\ request.chart # None
    /\ request.chart[1].labels # <<>>
    /\ Len(request.chart[1].datasets) >= 2
    /\ request.chart[1].datasets[1].data # <<>>
    /\ request.chart[1].datasets[2].data # <<>>

FirstMinusSecond(k) == request.chart[1].datasets[1].data[k] - request.chart[1].datasets[2].data[k]

\* C12: with two series and labels the first sentence names the label at the
\* smallest index whose absolute difference (first minus second) is maximal,
\* reports that absolute difference, and says "higher" exactly when the
\* difference is strictly positive; otherwise the result is the empty list
C12_FirstSentenceNamesLargestGap ==
    InsightsDone =>
        IF Comparable
        THEN \E k \in 1..Len(request.chart[1].labels) :
                /\ \A j \in 1..Len(request.chart[1].labels) :
                      Abs(FirstMinusSecond(j)) <= Abs(FirstMinusSecond(k))
                /\ \A j \in 1..(k - 1) : Abs(FirstMinusSecond(j)) < Abs(FirstMinusSecond(k))
                /\ Len(result) >= 1
                /\ result[1].label = Lower(request.chart[1].labels[k])
                /\ result[1].points = Abs(FirstMinusSecond(k))
                /\ result[1].comparator = "higher" <=> FirstMinusSecond(k) > 0
                /\ result[1].comparator = "lower" <=> FirstMinusSecond(k) <= 0
        ELSE result = <<>>

\* Two labels with equal gaps of opposite sign: the first one is named
C12_Witness ==
    /\ InsightsDone /\ Comparable
    /\ Len(request.chart[1].labels) = 2
    /\ FirstMinusSecond(1) = -750 /\ FirstMinusSecond(2) = 750
    /\ result[1].label = Lower(request.chart[1].labels[1])
    /\ result[1].comparator = "lower"

-----------------------------------------------------------------------------
(* The cap step of _series_to_categorical, checked under SpecBucket         *)

\* The values the cap step receives: missing handled, rare labels merged
PreCapValues ==
    LET cleaned == ReplaceEmpty(ToSeries(series))
        working == IF policy.drop_missing THEN DropNa(cleaned) ELSE FillNa(cleaned, MissingLabel)
    IN  Values(RareMerge(working, policy.min_count))

FirstPosition(vals, l) ==
    CHOOSE k \in 1..Len(vals) : vals[k] = l /\ \A j \in 1..(k - 1) : vals[j] # l

\* l1 comes before l2: more frequent, or as frequent and seen first
RanksBefore(vals, l1, l2) ==
    \/ CountOf(vals, l1) > CountOf(vals, l2)
    \/ CountOf(vals, l1) = CountOf(vals, l2) /\ FirstPosition(vals, l1) < FirstPosition(vals, l2)

\* The n first labels of that order
FirstLabels(vals, n) ==
    {l \in SeqToSet(vals) : Cardinality({l2 \in SeqToSet(vals) : RanksBefore(vals, l2, l)}) < n}

CapActive == pc = "done" /\ policy.limit > 0 /\ Cardinality(SeqToSet(PreCapValues)) > policy.limit

\* The output keeps the n first labels and relabels every other value "Other"
KeepsFirstLabels(n) ==
    Values(bucketed) =
        [k \in 1..Len(PreCapValues) |->
            IF PreCapValues[k] \in FirstLabels(PreCapValues, n)
            THEN PreCapValues[k] ELSE OtherLabel]

\* C14 as stated: when the cap is active the labels kept are exactly the
\* limit - 1 first labels by descending frequency, ties by first appearance,
\* and every other value is relabeled "Other"
C14_CapKeepsLimitMinusOne == CapActive => KeepsFirstLabels(policy.limit - 1)

\* What the cap does: it keeps max(1, limit - 1) labels of that order (lemma)
CapKeepsAtLeastOne == CapActive => KeepsFirstLabels(Max(1, policy.limit - 1))

-----------------------------------------------------------------------------
(* Specification: one call of _build_categorical_table                      *)

MaxCategoricalRows == 3

CategoricalLimits == {0, 2}

CategoricalRecords ==
    {[c \in {TopBreakField, VariableField} |-> IF c = TopBreakField THEN tv ELSE vv] :
     tv \in {"f", "m", NaN}, vv \in {"a", "b", NaN}}

InitCategorical ==
    /\ pc = "ready"
    /\ \E records \in SeqsOf(CategoricalRecords, 1, MaxCategoricalRows) :
          dataframe = Frame(records)
    /\ request \in {[op |-> "build_categorical_table", topbreak |-> TopBreakField,
                      variable |-> VariableField, stat |-> st, limit |-> l,
                      drop_missing |-> d, min_count |-> mc] :
                     st \in ALLOWED_STATS, l \in CategoricalLimits, d \in BOOLEAN,
                     mc \in MinCountChoices}
    /\ result = Unset
    /\ BucketIdle /\ HandlerIdle

CallBuildCategoricalTable ==
    /\ pc = "ready"
    /\ request.op = "build_categorical_table"
    /\ result' = build_categorical_table(dataframe, request.topbreak, request.variable,
                                         request.stat, request.limit, request.drop_missing,
                                         request.min_count)
    /\ pc' = "done"
    /\ UNCHANGED <<dataframe, request, bucketVars, handlerVars>>

NextCategorical == CallBuildCategoricalTable

SpecCategorical == InitCategorical /\ [][NextCategorical]_vars

CategoricalPayload ==
    pc = "done" /\ request.op = "build_categorical_table" /\ result.kind = "payload"

\* The values of an axis as the cap step of _series_to_categorical receives them
AxisPreCap(column) ==
    LET cleaned == ReplaceEmpty(Column(dataframe, column))
        working == IF request.drop_missing THEN DropNa(cleaned)
                   ELSE FillNa(cleaned, MissingLabel)
    IN  RareMerge(working, request.min_count)

\* The cap step relabeled at least one value of the axis to "Other"
AxisTruncated(column) ==
    /\ request.limit > 0
    /\ Cardinality(Labels(AxisPreCap(column))) > request.limit
    /\ CapLabels(AxisPreCap(column), request.limit) # AxisPreCap(column)

NoteTexts == {result.meta.notes[k].text : k \in 1..Len(result.meta.notes)}

\* C13 as stated: whenever the cap step relabeled a value of an axis to "Other",
\* meta.notes holds the "categories limited" warning for that axis, also when
\* drop_missing = false adds the missing label
C13_TruncationIsNoted ==
    CategoricalPayload =>
        /\ AxisTruncated(VariableField) => "Variable categories limited to top" \in NoteTexts
        /\ AxisTruncated(TopBreakField) => "Top break categories limited to top" \in NoteTexts

-----------------------------------------------------------------------------
(* Specification: one call of either table builder, for the percentages     *)

InitPercent == InitCategorical \/ InitCrosstab

NextPercent == CallBuildCategoricalTable \/ CallBuildCrosstab

SpecPercent == InitPercent /\ [][NextPercent]_vars

CrosstabDone == pc = "done" /\ request.op = "build_crosstab"

PercentModes == {"rowPercent", "columnPercent", "totalPercent"}

\* The frame pd.crosstab receives
Prepared == explode_columns(dataframe, <<request.side_break>> \o request.top_breaks)

RowCount(r) == Cardinality({k \in 1..Len(Prepared) : Prepared[k].c[request.side_break] = r})
ColCount(c) == Cardinality({k \in 1..Len(Prepared) : Prepared[k].c[request.top_breaks[1]] = c})

\* Every cell of the crosstab lies between 0.0 and 100.0 (none is NaN), and the
\* cells of a row or column without records are 0.0
CrosstabPercentagesDefined ==
    /\ \A rc \in DOMAIN result.cells : result.cells[rc] \in 0..1000
    /\ \A r \in DataRows(result), c \in SeqToSet(result.columns) :
          RowCount(r) = 0 => result.cells[<<r, c>>] = 0
    /\ \A c \in DataCols(result), r \in SeqToSet(result.index) :
          ColCount(c) = 0 => result.cells[<<r, c>>] = 0

\* Every row percentage and chart value of the categorical table is a number,
\* and 0.0 where the margin is zero
CategoricalPercentagesDefined ==
    /\ \A r \in 1..Len(result.html) : \A c \in 1..Len(result.html[r].cells) :
          /\ result.html[r].cells[c].rowpct \in 0..1000
          /\ result.html[r].total_count = 0 => result.html[r].cells[c].rowpct = 0
    /\ \A s \in 1..Len(result.chart.series) : \A k \in 1..Len(result.chart.series[s].data) :
          /\ result.chart.series[s].data[k].y.den # 0
          /\ result.chart.series[s].data[k].y.num >= 0
          /\ result.chart.series[s].data[k].y.num <= 100 * result.chart.series[s].data[k].y.den

\* C15: in every percentage mode the cells of a row or column whose margin is
\* zero are 0.0 in the table and in the chart series, no cell or chart value is
\* NaN and no division error is raised
C15_ZeroMarginsGiveZero ==
    /\ (CrosstabDone /\ request.mode \in PercentModes /\ Prepared # <<>>) =>
            result.kind = "table" /\ CrosstabPercentagesDefined
    /\ (CrosstabDone /\ result.kind = "error") => result.error # "ZeroDivisionError"
    /\ (pc = "done" /\ request.op = "build_categorical_table"
            /\ request.stat \in {"rowpct", "colpct", "totalpct"}) =>
            IF result.kind = "payload" THEN CategoricalPercentagesDefined
            ELSE result.error # "ZeroDivisionError"

\* A row-percent table with a category nobody chose next to one that was chosen
C15_Witness ==
    /\ CrosstabDone /\ request.mode = "rowPercent" /\ result.kind = "table"
    /\ request.side_break = "F6_FoodSituation"
    /\ RowCount("Worsened") = 0 /\ RowCount("Improved") = 2
    /\ \A c \in SeqToSet(result.columns) : result.cells[<<"Worsened", c>>] = 0
    /\ \E c \in DataCols(result) : result.cells[<<"Improved", c>>] = 1000

KnownModes == {"count", "rowPercent", "columnPercent", "totalPercent"}

\* C18: the cells of a returned table are non-negative integer counts in count
\* mode and percentages between 0.0 and 100.0 in every other mode; a mode
\* outside the four known ones never yields a table of any other kind of cell
C18_CellsAreCountsOrPercentages ==
    (CrosstabDone /\ result.kind = "table") =>
        /\ request.mode = "count" =>
               \A rc \in DOMAIN result.cells :
                   result.cells[rc] \in 0..(1000 * Len(Prepared)) /\ result.cells[rc] % 1000 = 0
        /\ request.mode # "count" => \A rc \in DOMAIN result.cells : result.cells[rc] \in 0..1000

\* A total-percent table of two records on two rows
C18_Witness ==
    /\ CrosstabDone /\ request.mode = "totalPercent" /\ result.kind = "table"
    /\ result.cells[<<TotalName, TotalName>>] = 1000
    /\ \E r \in DataRows(result) : result.cells[<<r, TotalName>>] = 500

-----------------------------------------------------------------------------
(* The dataset cache across invocations, checked under SpecHandler          *)

Fetched == "_fetch_dashboard_payload" \in calls'

\* What handler returns for the request when it reads the cached snapshot
FromSnapshot(cache, event) ==
    Dispatch([raised |-> "", cache |-> cache, df |-> cache.df[1], fetched |-> FALSE], event)

\* C17: an invocation fetches exactly when the cached dataset is unset; a
\* failed fetch leaves df and fields as they were; a successful fetch, also of
\* zero rows, sets the dataset, after which no invocation fetches, the cache
\* stays the same and every response is computed from that snapshot
C17_FetchExactlyWhenUnset ==
    [][(pc = "ready" /\ pc' = "responded") =>
          /\ Fetched <=> DATA_CACHE.df = None
          /\ (Fetched /\ response'.raised # "") => DATA_CACHE' = DATA_CACHE
          /\ (Fetched /\ response'.raised = "") => DATA_CACHE'.df # None
          /\ DATA_CACHE.df # None =>
                /\ DATA_CACHE' = DATA_CACHE
                /\ response' = FromSnapshot(DATA_CACHE, request').response]_vars

\* A table request served, without a fetch, from a cached payload of zero rows
C17_Witness ==
    /\ TableRequestAnswered
    /\ DATA_CACHE.df = Some(<<>>)
    /\ calls = {}
    /\ response.statusCode = 400 /\ response.body.error = "Dataset is empty"

-----------------------------------------------------------------------------
(* app.py: build_chart_payload and generate_table                           *)

PATH_LABELS ==
    [treatment |-> "Treatment", control |-> "Control", common |-> "Common",
     validation |-> "Validation"]

\* list(PATH_LABELS.keys())
PathKeys == <<"treatment", "control", "common", "validation">>

\* PATH_LABELS.get(path, path)
PathLabel(path) == IF path \in DOMAIN PATH_LABELS THEN PATH_LABELS[path] ELSE path

\* df[df[column].isin(values)]
RECURSIVE RowsIsin(_, _, _)
RowsIsin(df, column, values) ==
    IF df = <<>> THEN <<>>
    ELSE IF Head(df).c[column] \in values
         THEN <<Head(df)>> \o RowsIsin(Tail(df), column, values)
         ELSE RowsIsin(Tail(df), column, values)

\* groupby(["survey_path", side_break]).size() restricted to the relevant
\* paths: the observed (path, label) pairs in sorted order with their counts
GroupedCounts(prepared, side_break, relevant_paths) ==
    LET paths == SortSet({prepared[k].c["survey_path"] : k \in 1..Len(prepared)}
                             \cap SeqToSet(relevant_paths))
        labelsOf(path) ==
            SortSet({prepared[k].c[side_break] :
                     k \in {j \in 1..Len(prepared) : prepared[j].c["survey_path"] = path}})
        rowsOf(path) ==
            [j \in 1..Len(labelsOf(path)) |->
                [path |-> path, label |-> labelsOf(path)[j],
                 count |-> Cardinality({k \in 1..Len(prepared) :
                                          /\ prepared[k].c["survey_path"] = path
                                          /\ prepared[k].c[side_break] = labelsOf(path)[j]})]]
        concat[n \in 0..Len(paths)] ==
            IF n = 0 THEN <<>> ELSE concat[n - 1] \o rowsOf(paths[n])
    IN  concat[Len(paths)]

\* line 290: the cohorts of the filter, in the order of the filter
RelevantPaths(paths) == SelectSeq2(paths, {"treatment", "control"})

\* lines 287-325.  Returns None or Some([sideBreak, labels, datasets]), the
\* percentages in tenths
build_chart_payload(df, side_break, paths) ==
    LET relevant_paths == RelevantPaths(paths)
        prepared == explode_columns(df, <<side_break>>)
        grouped == GroupedCounts(prepared, side_break, relevant_paths)
        total(path) == SumSeq([k \in 1..Len(grouped) |->
                                  IF grouped[k].path = path THEN grouped[k].count ELSE 0])
        labels == Uniq([k \in 1..Len(grouped) |-> grouped[k].label])
        value(path, label) ==
            IF \E k \in 1..Len(grouped) : grouped[k].path = path /\ grouped[k].label = label
            THEN LET k == CHOOSE j \in 1..Len(grouped) :
                              grouped[j].path = path /\ grouped[j].label = label
                 IN  RoundTenths(grouped[k].count, total(path))
            ELSE 0
    IN  IF paths = <<>> \/ relevant_paths = <<>> \/ grouped = <<>> THEN None
        ELSE Some([sideBreak |-> side_break,
                   labels |-> labels,
                   datasets |-> [p \in 1..Len(relevant_paths) |->
                                   [label |-> PathLabel(relevant_paths[p]),
                                    data |-> [j \in 1..Len(labels) |->
                                                value(relevant_paths[p], labels[j])]]]])

\* lines 386-398: the tables of the side breaks, or the first exception raised
RECURSIVE FirstError(_)
FirstError(tables) ==
    IF tables = <<>> THEN <<>>
    ELSE IF Head(tables).kind = "error" THEN <<Head(tables)>> ELSE FirstError(Tail(tables))

\* lines 400-416
GenerateResponse(filtered_df, tables, chart_payload, mode) ==
    IF FirstError(tables) # <<>> THEN FirstError(tables)[1]
    ELSE [kind |-> "response", tables |-> tables, chart |-> chart_payload,
          insights |-> build_insights(chart_payload, mode),
          metadata |-> [rowCount |-> Len(filtered_df)]]

\* lines 371-416, on the frame SURVEY_DATAFRAME holds.  payload.paths is None
\* when the request gives no paths; the rendering of format_table is left out,
\* a table stands for its HTML
generate_table(survey, payload) ==
    LET top_breaks == IF payload.topBreaks = <<>> THEN <<"A7_Sex">> ELSE payload.topBreaks
        side_breaks == IF payload.sideBreaks = <<>> THEN <<"B2_Participation">>
                       ELSE payload.sideBreaks
        selected_paths == IF payload.paths = None THEN PathKeys ELSE payload.paths[1]
        filtered_df == RowsIsin(survey, "survey_path", SeqToSet(selected_paths))
    IN  GenerateResponse(
            filtered_df,
            [k \in 1..Len(side_breaks) |->
                build_crosstab(filtered_df, side_breaks[k], top_breaks, payload.mode)],
            build_chart_payload(filtered_df, side_breaks[1], selected_paths),
            payload.mode)

-----------------------------------------------------------------------------
(* Specification: one request to /generate_table                            *)

MaxSurveyRows == 3
MaxPaths == 2

SurveyRecords ==
    {[c \in {"survey_path", "B2_Participation", "A7_Sex"} |->
         CASE c = "survey_path" -> path
           [] c = "B2_Participation" -> answer
           [] OTHER -> "t1"] :
     path \in {"treatment", "control", "common"}, answer \in {"Yes", "No"}}

PathFilters ==
    {None} \cup {Some(paths) : paths \in SeqsOf({"treatment", "control", "common"}, 0, MaxPaths)}

InitGenerate ==
    /\ pc = "ready"
    /\ \E records \in SeqsOf(SurveyRecords, 1, MaxSurveyRows) : dataframe = Frame(records)
    /\ request \in {[op |-> "generate_table", topBreaks |-> <<>>, sideBreaks |-> <<>>,
                      mode |-> md, paths |-> paths] :
                     md \in {"count", "columnPercent"}, paths \in PathFilters}
    /\ result = Unset
    /\ BucketIdle /\ HandlerIdle

CallGenerateTable ==
    /\ pc = "ready"
    /\ request.op = "generate_table"
    /\ result' = generate_table(dataframe, request)
    /\ pc' = "done"
    /\ UNCHANGED <<dataframe, request, bucketVars, handlerVars>>

NextGenerate == CallGenerateTable

SpecGenerate == InitGenerate /\ [][NextGenerate]_vars

\* generate_table answered with the comparison sentence
ComparisonEmitted ==
    /\ pc = "done" /\ request.op = "generate_table"
    /\ result.kind = "response" /\ result.insights # <<>>

\* The share, in tenths of a percent, of the answer among the records of a cohort
CohortPercent(path, answer) ==
    LET cohort == {k \in 1..Len(dataframe) : dataframe[k].c["survey_path"] = path}
        chosen == {k \in cohort : Lower(dataframe[k].c["B2_Participation"]) = answer}
    IN  IF cohort = {} THEN 0 ELSE RoundTenths(Cardinality(chosen), Cardinality(cohort))

\* C16 as stated: when the comparison sentence is emitted the first series is
\* the treatment cohort and the second the control cohort, and "higher" is
\* reported exactly when the treatment percentage of the named label exceeds
\* the control percentage, for every paths filter
C16_HigherMeansTreatmentAbove ==
    ComparisonEmitted =>
        /\ result.chart[1].datasets[1].label = PATH_LABELS["treatment"]
        /\ result.chart[1].datasets[2].label = PATH_LABELS["control"]
        /\ result.insights[1].comparator = "higher" <=>
               CohortPercent("treatment", result.insights[1].label)
                   > CohortPercent("control", result.insights[1].label)

\* The same for filters that list treatment before control (lemma, not a claim)
TreatmentFirstFilters ==
    (ComparisonEmitted /\ request.paths \in {None, Some(<<"treatment", "control">>)}) =>
        /\ result.chart[1].datasets[1].label = PATH_LABELS["treatment"]
        /\ result.chart[1].datasets[2].label = PATH_LABELS["control"]
        /\ result.insights[1].comparator = "higher" <=>
               CohortPercent("treatment", result.insights[1].label)
                   > CohortPercent("control", result.insights[1].label)
=============================================================================
